---------------------------- MODULE Spec2Model ----------------------------
(***************************************************************************)
(* git-dit: reference garbage collection (lib/src/gc.rs), the reverse      *)
(* index iterator RefsReferringTo (lib/src/iter.rs) and message creation   *)
(* (lib/src/repository.rs), as state machines; further the reference       *)
(* deleting iterator, IssueMessagesIter (lib/src/iter.rs), the trailer     *)
(* accumulators (lib/src/message/accumulation.rs) and the editor lookup    *)
(* (src/programs.rs), each with a specification of its own.                *)
(*                                                                         *)
(* The repository is a commit DAG (parents) and a reference directory      *)
(* (refdir).  CollectableRefs::into_refs is modelled statement by          *)
(* statement; RefsReferringTo::next is modelled at its two control points, *)
(* the head of the 'outer loop and the 'refill loop over the revwalk.      *)
(***************************************************************************)
EXTENDS Naturals, Sequences, FiniteSets

\* ------------------------------------------------------------------ bounds
MaxNodes == 3
MaxIssues == 2
MaxLeaves == 1
MaxWatch == 3
MaxErrors == 1
MaxSeq == 3
MaxProcess == 4
MaxTrailers == 3

Node == 1..MaxNodes
Absent == 0

\* --------------------------------------------------------- reference names
\* refs/dit/<issue>/head, refs/dit/<issue>/leaves/<k> and their mirrors
\* under refs/remotes/<remote>/dit/ as <<scope, issue, role, k>>.
LocalHeadName(issue) == <<"local", issue, "head", 0>>

LocalLeafName(issue, k) == <<"local", issue, "leaf", k>>

RemoteHeadName(issue) == <<"remote", issue, "head", 0>>

RemoteLeafName(issue, k) == <<"remote", issue, "leaf", k>>

RefNames ==
    {LocalHeadName(i) : i \in Node} \cup {RemoteHeadName(i) : i \in Node}
    \cup {LocalLeafName(i, k) : i \in Node, k \in Node}
    \cup {RemoteLeafName(i, k) : i \in Node, k \in Node}

VARIABLES
    parents,               \* commit id -> set of parent ids (the DAG store)
    refdir,                \* reference name -> target commit id, Absent if none
    consider_remote_refs,  \* CollectableRefs.consider_remote_refs
    collect_heads,         \* CollectableRefs.collect_heads
    issues,                \* CollectableRefs.issues, the part not yet consumed
    retval,                \* into_refs: the references to collect so far
    messages,              \* into_refs: the revwalk shared by all issues
    refs_to_assess,        \* into_refs: the leaves to watch in the last pass
    pc,                    \* position in into_refs / of the iterator's owner
    refs,                  \* RefsReferringTo.refs: id -> Vec of references
    inner,                 \* RefsReferringTo.inner: the wrapped revwalk
    current_refs,          \* RefsReferringTo.current_refs: staged references
    ipc,                   \* RefsReferringTo::next: "idle" between calls,
                           \* "outer" and "refill" inside a call, "end"
                           \* once a call has returned None
    visited,               \* history: ids the wrapped revwalk has yielded
    armed,                 \* history: references registered by watch_ref
    emitted,               \* history: references next has returned
    failed,                \* history: how many errors next has returned
    collector,             \* ReferenceDeletingIter.inner: references to go
    results,               \* history: what the ReferenceDeletingIter yielded
    dir0,                  \* history: refdir when the collector was built
    acc,                   \* a ValueAccumulator
    values,                \* history: the values acc has processed
    yielded,               \* what acc.into_iter() yields
    accmap,                \* a map of String to ValueAccumulator
    single,                \* a SingleAccumulator
    trailers,              \* history: the trailers accmap, single processed
    environ,               \* the process environment
    gitconf,               \* the git configuration
    editor_result,         \* what editor(config) returned
    first_parent,          \* commit id -> its first parent, Absent if none
    start,                 \* the commit an IssueMessagesIter was made for
    commits                \* history: what the IssueMessagesIter yielded

\* The reference deleting iterator, the accumulators and the editor lookup.
delVars == <<collector, results, dir0>>

accVars == <<acc, values, yielded>>

trailerVars == <<accmap, single, trailers>>

edVars == <<environ, gitconf, editor_result>>

msgVars == <<first_parent, start, commits>>

libVars == <<delVars, accVars, trailerVars, edVars, msgVars>>

vars == <<parents, refdir, consider_remote_refs, collect_heads, issues,
          retval, messages, refs_to_assess, pc, refs, inner, current_refs,
          ipc, visited, armed, emitted, failed, libVars>>

\* Everything into_refs and RefsReferringTo work on, the reference
\* directory apart.
gcVars == <<parents, consider_remote_refs, collect_heads, issues, retval,
            messages, refs_to_assess, pc, refs, inner, current_refs, ipc,
            visited, armed, emitted, failed>>

repoVars == <<parents, refdir>>

confVars == <<consider_remote_refs, collect_heads, issues>>

localVars == <<retval, messages, refs_to_assess>>

\* ---------------------------------------------------------------- values
\* Option<T>
None == <<"None">>

Some(v) == <<"Some", v>>

\* ValueAccumulator::Latest(Option<TrailerValue>), ::List(Vec<TrailerValue>)
Latest(value) == <<"Latest", value>>

List(vs) == <<"List", vs>>

\* The environment variables editor() reads.
EnvNames == {"GIT_EDITOR", "VISUAL", "EDITOR"}

\* The variables of the parts that are not running.
DelIdle ==
    /\ collector = <<>>
    /\ results = <<>>
    /\ dir0 = [r \in RefNames |-> Absent]

AccIdle ==
    /\ acc = Latest(None)
    /\ values = <<>>
    /\ yielded = <<>>

TrailerIdle ==
    /\ accmap = [k \in {} |-> Latest(None)]
    /\ single = [key |-> "", acc |-> Latest(None)]
    /\ trailers = <<>>

EdIdle ==
    /\ environ = [n \in EnvNames |-> <<"NotPresent">>]
    /\ gitconf = None
    /\ editor_result = <<"pending">>

MsgIdle ==
    /\ first_parent = [n \in Node |-> Absent]
    /\ start = Absent
    /\ commits = <<>>

LibIdle == DelIdle /\ AccIdle /\ TrailerIdle /\ EdIdle /\ MsgIdle

\* ------------------------------------------------------------ sequences
Range(s) == {s[i] : i \in 1..Len(s)}

Count(s, x) == Cardinality({i \in 1..Len(s) : s[i] = x})

NoDuplicates(s) == \A i, j \in 1..Len(s) : s[i] = s[j] => i = j

\* Vec::pop: the last element is removed and returned.
Last(s) == s[Len(s)]

PopBack(s) == SubSeq(s, 1, Len(s) - 1)

\* ------------------------------------------------------------- the DAG
\* The ids reachable from the ids in S by following parent links, the ids
\* in S included.
RECURSIVE Closure(_, _)
Closure(P, S) ==
    LET T == S \cup UNION {P[n] : n \in S}
    IN  IF T = S THEN S ELSE Closure(P, T)

Ancestors(S) == Closure(parents, S)

\* ------------------------------------------------------------ git2::Revwalk
\* A walker is the set of pushed ids and the set of ids already yielded.
NewRevwalk == [pushed |-> {}, walked |-> {}]

RevwalkPush(w, id) == [w EXCEPT !.pushed = @ \cup {id}]

RevwalkPushAll(w, ids) == [w EXCEPT !.pushed = @ \cup ids]

\* What the walker may yield next: a pushed id, or a parent of an id it has
\* yielded, that it has not yielded yet (the order among these depends on
\* commit times).  The walk is over when this is empty.
Frontier(w) ==
    (w.pushed \cup UNION {parents[n] : n \in w.walked}) \ w.walked

RevwalkYield(w, id) == [w EXCEPT !.walked = @ \cup {id}]

\* --------------------------------------------------- RefsReferringTo
EmptyMap == [id \in {} |-> <<>>]

\* Faulty variant of EntryPush: HashMap::insert(id, vec![reference]), which replaces
\* the references already filed under id.
EntryPushOverwrite(map, id, reference) ==
    [k \in DOMAIN map \cup {id} |-> IF k = id THEN <<reference>> ELSE map[k]]

\* HashMap::entry(id).or_insert_with(Vec::new).push(reference)
EntryPush(map, id, reference) ==
    IF id \in DOMAIN map
    THEN [map EXCEPT ![id] = Append(@, reference)]
    ELSE [k \in DOMAIN map \cup {id} |->
            IF k = id THEN <<reference>> ELSE map[k]]

\* HashMap::remove(id)
MapRemove(map, id) == [k \in DOMAIN map \ {id} |-> map[k]]

\* Variant of WatchRef: the reference is filed under a parent of its target,
\* if the target has one.
WatchRefByParent(map, reference) ==
    LET id == refdir[reference]
    IN  EntryPush(map,
                  IF parents[id] = {} THEN id
                  ELSE CHOOSE p \in parents[id] : TRUE,
                  reference)

\* watch_ref: peel the reference and file it under its target id.
WatchRef(map, reference) == EntryPush(map, refdir[reference], reference)

\* watch_refs: watch_ref for each reference, in order.
RECURSIVE WatchRefs(_, _)
WatchRefs(map, references) ==
    IF references = <<>> THEN map
    ELSE WatchRefs(WatchRef(map, Head(references)), Tail(references))

InPass == pc \in {"iter", "head_pass", "leaves_pass"}

\* The owner of the iterator asks for the next item.
IterCall ==
    /\ InPass
    /\ ipc = "idle"
    /\ ipc' = "outer"
    /\ UNCHANGED <<repoVars, confVars, localVars, pc, refs, inner,
                   current_refs, visited, armed, emitted>>
    /\ UNCHANGED <<failed, libVars>>

\* 'outer, current_refs.pop() is Some: return Some(Ok(reference)).  In
\* into_refs the item goes to retval (collect_result_into).
OuterPop ==
    /\ InPass
    /\ ipc = "outer"
    /\ current_refs # <<>>
    /\ current_refs' = PopBack(current_refs)
    /\ emitted' = Append(emitted, Last(current_refs))
    /\ retval' = IF pc = "iter" THEN retval
                 ELSE Append(retval, Last(current_refs))
    /\ ipc' = "idle"
    /\ UNCHANGED <<repoVars, confVars, messages, refs_to_assess, pc, refs,
                   inner, visited, armed>>
    /\ UNCHANGED <<failed, libVars>>

\* 'outer, current_refs.pop() is None: enter the 'refill loop.
OuterEmpty ==
    /\ InPass
    /\ ipc = "outer"
    /\ current_refs = <<>>
    /\ ipc' = "refill"
    /\ UNCHANGED <<repoVars, confVars, localVars, pc, refs, inner,
                   current_refs, visited, armed, emitted>>
    /\ UNCHANGED <<failed, libVars>>

\* 'refill, the revwalk yields Ok(id): with a watch entry for id, the entry
\* is removed and staged and control continues at 'outer; without one the
\* 'refill loop goes on.
RefillVisit ==
    /\ InPass
    /\ ipc = "refill"
    /\ \E id \in Frontier(inner) :
        /\ inner' = RevwalkYield(inner, id)
        /\ visited' = visited \cup {id}
        /\ IF id \in DOMAIN refs
           THEN /\ current_refs' = refs[id]
                /\ refs' = MapRemove(refs, id)
                /\ ipc' = "outer"
           ELSE UNCHANGED <<current_refs, refs, ipc>>
    /\ UNCHANGED <<repoVars, confVars, localVars, pc, armed, emitted>>
    /\ UNCHANGED <<failed, libVars>>

\* 'refill, the revwalk yields None (and resets itself): the for loop ends.
\* Nothing follows it in the body of 'outer, so control is back at the head
\* of 'outer.
RefillDepleted ==
    /\ InPass
    /\ ipc = "refill"
    /\ Frontier(inner) = {}
    /\ inner' = NewRevwalk
    /\ ipc' = "outer"
    /\ UNCHANGED <<repoVars, confVars, localVars, pc, refs, current_refs,
                   visited, armed, emitted>>
    /\ UNCHANGED <<failed, libVars>>

\* 'refill, the revwalk yields an error (a commit could not be loaded):
\* return Some(Err(err)).  The walker is left as it was and next keeps no
\* note of the error.  In into_refs collect_result_into hands the error on
\* and into_refs returns it.
RefillError ==
    /\ InPass
    /\ ipc = "refill"
    /\ Frontier(inner) # {}
    /\ failed < MaxErrors
    /\ failed' = failed + 1
    /\ ipc' = "idle"
    /\ pc' = IF pc = "iter" THEN pc ELSE "err"
    /\ UNCHANGED <<repoVars, confVars, localVars, refs, inner, current_refs,
                   visited, armed, emitted, libVars>>

\* -------------------------------------- a RefsReferringTo pass on its own
\* RefsReferringTo::new(messages) on a walker with any ids pushed, then
\* watch_ref calls, then next.
Dags ==
    {f \in [Node -> SUBSET Node] : \A n \in Node : f[n] \subseteq 1..(n - 1)}

IterNames ==
    {LocalHeadName(1), RemoteHeadName(1)}
    \cup {LocalLeafName(1, k) : k \in 1..MaxLeaves}

\* The reference directories that hold references under the names in N only.
Refdirs(N) ==
    {[r \in RefNames |-> IF r \in N THEN d[r] ELSE Absent] :
        d \in [N -> Node \cup {Absent}]}

\* A reference that is not there cannot be watched: every name is taken.
IterRefdirs == {d \in Refdirs(IterNames) : \A r \in IterNames : d[r] # Absent}

InitIter ==
    /\ parents \in Dags
    /\ refdir \in IterRefdirs
    /\ consider_remote_refs = FALSE
    /\ collect_heads = "Never"
    /\ issues = <<>>
    /\ retval = <<>>
    /\ messages = NewRevwalk
    /\ refs_to_assess = <<>>
    /\ pc = "iter"
    /\ refs = EmptyMap
    /\ \E seeds \in SUBSET Node : inner = RevwalkPushAll(NewRevwalk, seeds)
    /\ current_refs = <<>>
    /\ ipc = "idle"
    /\ visited = {}
    /\ armed = <<>>
    /\ emitted = <<>>
    /\ failed = 0
    /\ LibIdle

\* watch_ref, called before the first next.
WatchRefCall ==
    /\ pc = "iter"
    /\ ipc = "idle"
    /\ emitted = <<>>
    /\ failed = 0
    /\ Len(armed) < MaxWatch
    /\ \E reference \in RefNames :
        /\ refdir[reference] # Absent
        /\ refs' = WatchRef(refs, reference)
        /\ armed' = Append(armed, reference)
    /\ UNCHANGED <<repoVars, confVars, localVars, pc, inner, current_refs,
                   ipc, visited, emitted>>
    /\ UNCHANGED <<failed, libVars>>

NextIter ==
    \/ WatchRefCall
    \/ IterCall
    \/ OuterPop
    \/ OuterEmpty
    \/ RefillVisit
    \/ RefillDepleted
    \/ RefillError

SpecIter == InitIter /\ [][NextIter]_vars

\* ------------------------------------------------------ issue references
\* Faulty variant of LocalHeadRef: the glob refs/dit/<issue>/**, whose first match
\* may be a leaf.
LocalHeadRefAnyLocal(issue) ==
    LET S == {r \in RefNames :
                 r[1] = "local" /\ r[2] = issue /\ refdir[r] # Absent}
    IN  IF S = {} THEN LocalHeadName(issue)
        ELSE CHOOSE r \in S : \A x \in S : r[4] >= x[4]

\* Issue::local_head, by the glob refs/dit/<issue>/head: the reference, and
\* the commit it peels to (Absent: CannotFindIssueHead).
LocalHeadRef(issue) == LocalHeadName(issue)

LocalHead(issue) == refdir[LocalHeadRef(issue)]

\* Issue::local_refs(IssueRefType::Leaf) and Issue::remote_refs(_), the
\* references of the issue that exist, in name order.
LocalLeaves(issue) ==
    {r \in RefNames :
        r[1] = "local" /\ r[2] = issue /\ r[3] = "leaf" /\ refdir[r] # Absent}

RemoteRefs(issue, role) ==
    {r \in RefNames :
        r[1] = "remote" /\ r[2] = issue /\ r[3] = role /\ refdir[r] # Absent}

RECURSIVE InNameOrder(_)
InNameOrder(S) ==
    IF S = {} THEN <<>>
    ELSE LET r == CHOOSE x \in S : \A y \in S : x[4] <= y[4]
         IN  <<r>> \o InNameOrder(S \ {r})

\* ------------------------------------------------- CollectableRefs::into_refs
Policies == {"Never", "BackedByRemoteHead"}

\* Faulty variant of HeadHistorySeeds: the remote heads are pushed whatever the
\* policy.
HeadHistorySeedsAlways(issue) ==
    {refdir[r] : r \in RemoteRefs(issue, "head")}

\* The ids pushed to head_history: none, or the targets of the issue's
\* remote heads.
HeadHistorySeeds(issue) ==
    IF collect_heads = "BackedByRemoteHead"
    THEN {refdir[r] : r \in RemoteRefs(issue, "head")}
    ELSE {}

\* Faulty variant of HeadHistory: the head pass walks from the ids pushed to
\* messages as well, the local head among them.
HeadHistoryShared(issue) ==
    RevwalkPushAll(RevwalkPush(messages, LocalHead(issue)),
                   HeadHistorySeeds(issue))

\* head_history, a revwalk of its own for each issue.
HeadHistory(issue) == RevwalkPushAll(NewRevwalk, HeadHistorySeeds(issue))

\* push_ref_parents: the parents of the commit the reference peels to.
PushRefParents(target, reference) ==
    RevwalkPushAll(target, parents[refdir[reference]])

RECURSIVE PushAllRefParents(_, _)
PushAllRefParents(target, references) ==
    IF references = <<>> THEN target
    ELSE PushAllRefParents(PushRefParents(target, Head(references)),
                           Tail(references))

\* What the "remote refs" block adds to refs_to_assess.
RemoteRefsBlock(issue) ==
    IF consider_remote_refs THEN InNameOrder(LocalLeaves(issue)) ELSE <<>>

\* let mut retval, messages, refs_to_assess
IntoRefsBegin ==
    /\ pc = "new"
    /\ retval' = <<>>
    /\ messages' = NewRevwalk
    /\ refs_to_assess' = <<>>
    /\ pc' = "loop"
    /\ UNCHANGED <<repoVars, confVars, refs, inner, current_refs, ipc,
                   visited, armed, emitted>>
    /\ UNCHANGED <<failed, libVars>>

\* for issue in self.issues: issue.local_head()? fails, into_refs returns
\* the error.
IssueHeadMissing ==
    /\ pc = "loop"
    /\ issues # <<>>
    /\ LocalHead(Head(issues)) = Absent
    /\ issues' = Tail(issues)
    /\ pc' = "err"
    /\ UNCHANGED <<repoVars, consider_remote_refs, collect_heads, localVars,
                   refs, inner, current_refs, ipc, visited, armed, emitted>>
    /\ UNCHANGED <<failed, libVars>>

\* for issue in self.issues: the local head is pushed to messages, and the
\* head pass is set up: head_history seeded by the policy, a RefsReferringTo
\* over it, the local head watched.  collect_result_into then drains it.
IssueHead ==
    /\ pc = "loop"
    /\ issues # <<>>
    /\ LET issue == Head(issues) IN
        /\ LocalHead(issue) # Absent
        /\ issues' = Tail(issues)
        /\ messages' = RevwalkPush(messages, LocalHead(issue))
        /\ inner' = HeadHistory(issue)
        /\ refs' = WatchRef(EmptyMap, LocalHeadRef(issue))
        /\ armed' = <<LocalHeadRef(issue)>>
    /\ current_refs' = <<>>
    /\ ipc' = "idle"
    /\ visited' = {}
    /\ emitted' = <<>>
    /\ pc' = "head_pass"
    /\ UNCHANGED <<repoVars, consider_remote_refs, collect_heads, retval,
                   refs_to_assess>>
    /\ UNCHANGED <<failed, libVars>>

\* After the loop over the issues: RefsReferringTo::new(messages),
\* watch_refs(refs_to_assess).  collect_result_into then drains it.
LeavesPass ==
    /\ pc = "loop"
    /\ issues = <<>>
    /\ inner' = messages
    /\ refs' = WatchRefs(EmptyMap, refs_to_assess)
    /\ armed' = refs_to_assess
    /\ current_refs' = <<>>
    /\ ipc' = "idle"
    /\ visited' = {}
    /\ emitted' = <<>>
    /\ pc' = "leaves_pass"
    /\ UNCHANGED <<repoVars, confVars, localVars>>
    /\ UNCHANGED <<failed, libVars>>

\* The two steps of into_refs that wait for collect_result_into to come
\* back, that is for next to return None.  No step of next sets ipc to
\* "end" (see RefillDepleted), so neither is ever enabled; they are not
\* part of Next.
\*
\* The rest of the loop body for the issue whose head pass has ended: the
\* local leaves (the parents of each pushed to messages, the leaf added to
\* refs_to_assess) and the "remote refs" block.
IssueLeaves(issue) ==
    /\ pc = "head_pass"
    /\ ipc = "end"
    /\ messages' = PushAllRefParents(messages, InNameOrder(LocalLeaves(issue)))
    /\ refs_to_assess' = refs_to_assess \o InNameOrder(LocalLeaves(issue))
                            \o RemoteRefsBlock(issue)
    /\ pc' = "loop"
    /\ UNCHANGED <<repoVars, confVars, retval, refs, inner, current_refs,
                   ipc, visited, armed, emitted>>
    /\ UNCHANGED <<failed, libVars>>

\* Ok(retval)
IntoRefsReturn ==
    /\ pc = "leaves_pass"
    /\ ipc = "end"
    /\ pc' = "ok"
    /\ UNCHANGED <<repoVars, confVars, localVars, refs, inner, current_refs,
                   ipc, visited, armed, emitted>>
    /\ UNCHANGED <<failed, libVars>>

\* -------------------------------------------------- a run of into_refs
IssueIds == 1..MaxIssues

\* Issue 1 may have every kind of reference; the other issues are known
\* from a remote only.
GcNames ==
    {LocalHeadName(1), RemoteLeafName(1, 1)}
    \cup {RemoteHeadName(i) : i \in IssueIds}
    \cup {LocalLeafName(1, k) : k \in 1..MaxLeaves}

\* The issues handed to CollectableRefs::new: any issues, each once.
IssueLists ==
    {<<>>} \cup {<<i>> : i \in IssueIds}
    \cup {l \in {<<i, j>> : i \in IssueIds, j \in IssueIds} : l[1] # l[2]}

Blank ==
    /\ retval = <<>>
    /\ messages = NewRevwalk
    /\ refs_to_assess = <<>>
    /\ refs = EmptyMap
    /\ inner = NewRevwalk
    /\ current_refs = <<>>
    /\ ipc = "idle"
    /\ visited = {}
    /\ armed = <<>>
    /\ emitted = <<>>

\* CollectableRefs::new(repo, issues), with consider_remote_refs() and
\* collect_heads(condition) called or not, on any repository.
Init ==
    /\ parents \in Dags
    /\ refdir \in Refdirs(GcNames)
    /\ consider_remote_refs \in BOOLEAN
    /\ collect_heads \in Policies
    /\ issues \in IssueLists
    /\ pc = "new"
    /\ Blank
    /\ failed = 0
    /\ LibIdle

Next ==
    \/ IntoRefsBegin
    \/ IssueHeadMissing
    \/ IssueHead
    \/ LeavesPass
    \/ IterCall
    \/ OuterPop
    \/ OuterEmpty
    \/ RefillVisit
    \/ RefillDepleted
    \/ RefillError

Spec == Init /\ [][Next]_vars

\* The program runs on as long as it has a step to take.
FairSpec == Spec /\ WF_vars(Next)

\* ------------------------------------- create_message and garbage collection
\* A repository that starts empty and is written by create_message only;
\* CollectableRefs in its default configuration, driven by into_collector.
InitMsg ==
    /\ parents = <<>>
    /\ refdir = [r \in RefNames |-> Absent]
    /\ consider_remote_refs = FALSE
    /\ collect_heads = "Never"
    /\ issues = <<>>
    /\ pc = "repo"
    /\ Blank
    /\ failed = 0
    /\ LibIdle

\* create_message(issue, .., parents): the commit gets the next id; with no
\* issue given it starts an issue and gets the head reference, otherwise it
\* gets a leaf reference of the issue named after it.
CreateMessage ==
    /\ pc = "repo"
    /\ Len(parents) < MaxNodes
    /\ \E issue \in {Absent} \cup DOMAIN parents, ps \in SUBSET DOMAIN parents :
        LET msg_id == Len(parents) + 1
            refname == IF issue = Absent THEN LocalHeadName(msg_id)
                       ELSE LocalLeafName(issue, msg_id)
        IN  /\ parents' = Append(parents, ps)
            /\ refdir' = [refdir EXCEPT ![refname] = msg_id]
    /\ UNCHANGED <<confVars, localVars, pc, refs, inner, current_refs, ipc,
                   visited, armed, emitted>>
    /\ UNCHANGED <<failed, libVars>>

\* CollectableRefs::new(repo, issues).into_collector(), which starts with
\* into_refs.
StartCollector ==
    /\ pc = "repo"
    /\ \E l \in {<<>>} \cup {<<i>> : i \in DOMAIN parents}
                \cup {x \in {<<i, j>> : i \in DOMAIN parents,
                                        j \in DOMAIN parents} :
                        x[1] # x[2] /\ MaxIssues >= 2} :
        issues' = l
    /\ consider_remote_refs' = FALSE
    /\ collect_heads' = "Never"
    /\ pc' = "new"
    /\ UNCHANGED <<repoVars, localVars, refs, inner, current_refs, ipc,
                   visited, armed, emitted>>
    /\ UNCHANGED <<failed, libVars>>

\* The steps of into_refs that can be taken here.  OuterPop, RefillVisit
\* and RefillError are left out: with collect_heads = Never nothing is pushed to a
\* head_history, and the leaves pass is set up only for no issues at all,
\* with nothing pushed to messages.
CollectorStep ==
    \/ IntoRefsBegin
    \/ IssueHeadMissing
    \/ IssueHead
    \/ LeavesPass
    \/ IterCall
    \/ OuterEmpty
    \/ RefillDepleted

NextMsg ==
    \/ CreateMessage
    \/ StartCollector
    \/ CollectorStep

SpecMsg == InitMsg /\ [][NextMsg]_vars

\* A collector that was started runs on; nobody has to create messages or
\* start a collector.
FairSpecMsg == SpecMsg /\ WF_vars(CollectorStep)

\* ------------------------------------------ the reference deleting iterator
\* The variables of into_refs and RefsReferringTo while neither runs.
GcIdle ==
    /\ parents = [n \in Node |-> {}]
    /\ consider_remote_refs = FALSE
    /\ collect_heads = "Never"
    /\ issues = <<>>
    /\ messages = NewRevwalk
    /\ refs_to_assess = <<>>
    /\ refs = EmptyMap
    /\ inner = NewRevwalk
    /\ current_refs = <<>>
    /\ ipc = "idle"
    /\ visited = {}
    /\ armed = <<>>
    /\ emitted = <<>>
    /\ failed = 0

\* The sequences over S of at most n elements.
SeqsOver(S, n) == UNION {[1..k -> S] : k \in 0..n}

DelNames ==
    {LocalHeadName(1)}
    \cup {LocalLeafName(i, k) : i \in IssueIds, k \in 1..MaxLeaves}

\* A Vec of references to collect, and a reference directory in which some
\* of them may be gone already.
InitDel ==
    /\ GcIdle
    /\ refdir \in Refdirs(DelNames)
    /\ retval \in SeqsOver(DelNames, MaxSeq)
    /\ pc = "vec"
    /\ LibIdle

\* <Vec<Reference> as IntoIterator>::IntoIter, variant that hands out the
\* elements from the back.
IntoIterNextBack(v) == v[Len(v)]

\* <Vec<Reference> as IntoIterator>::IntoIter: the element handed out next,
\* and what is left.
IntoIterNext(v) == Head(v)

IntoIterRest(v) == Tail(v)

\* delete(Reference): whether it fails (the reference is not there), and
\* the directory after it.
DeleteFails(dir, r) == dir[r] = Absent

DeleteReference(dir, r) == [dir EXCEPT ![r] = Absent]

\* Variant of AfterError: the iterator gives up after a failed deletion.
AfterErrorFused(rest) == <<>>

\* What is left to the iterator after a deletion failed.
AfterError(rest) == rest

\* into_refs().map(ReferenceCollector::from): the collector takes the Vec.
CollectorFrom ==
    /\ pc = "vec"
    /\ collector' = retval
    /\ dir0' = refdir
    /\ pc' = "collector"
    /\ UNCHANGED <<parents, refdir, confVars, localVars, refs, inner,
                   current_refs, ipc, visited, armed, emitted, failed,
                   results, accVars, trailerVars, edVars, msgVars>>

\* ReferenceDeletingIter::next with a reference left: it is deleted, and
\* the outcome is yielded, an error naming the reference if that failed.
DeleteNext ==
    /\ pc = "collector"
    /\ collector # <<>>
    /\ LET r == IntoIterNext(collector) IN
        IF DeleteFails(refdir, r)
        THEN /\ results' = Append(results, <<"Err", r>>)
             /\ collector' = AfterError(IntoIterRest(collector))
             /\ refdir' = refdir
        ELSE /\ results' = Append(results, <<"Ok", r>>)
             /\ collector' = IntoIterRest(collector)
             /\ refdir' = DeleteReference(refdir, r)
    /\ UNCHANGED <<parents, confVars, localVars, pc, refs, inner,
                   current_refs, ipc, visited, armed, emitted, failed, dir0,
                   accVars, trailerVars, edVars, msgVars>>

\* ReferenceDeletingIter::next with no reference left: None.
DeleteEnd ==
    /\ pc = "collector"
    /\ collector = <<>>
    /\ pc' = "drained"
    /\ UNCHANGED <<parents, refdir, confVars, localVars, refs, inner,
                   current_refs, ipc, visited, armed, emitted, failed,
                   libVars>>

NextDel ==
    \/ CollectorFrom
    \/ DeleteNext
    \/ DeleteEnd

SpecDel == InitDel /\ [][NextDel]_vars

\* ------------------------------------------------------- ValueAccumulator
\* Nothing of the repository is in use.
GcOff ==
    /\ GcIdle
    /\ refdir = [r \in RefNames |-> Absent]
    /\ retval = <<>>
    /\ pc = "lib"

TrailerValues == {"foo-bar", "baz", "qux"}

AccumulationPolicies == {"Latest", "List"}

\* What is left of a value that was moved out.
Moved == <<"moved">>

\* impl From<AccumulationPolicy> for ValueAccumulator
FromPolicy(policy) ==
    IF policy = "Latest" THEN Latest(None) ELSE List(<<>>)

\* Variant of ProcessValue: Latest takes every new value.
ProcessValueOverwrite(a, new_value) ==
    IF a[1] = "Latest" THEN Latest(Some(new_value))
    ELSE List(Append(a[2], new_value))

\* Variant of ProcessValue: List puts the new value in front.
ProcessValuePrepend(a, new_value) ==
    IF a[1] = "Latest"
    THEN IF a[2] = None THEN Latest(Some(new_value)) ELSE a
    ELSE List(<<new_value>> \o a[2])

\* ValueAccumulator::process
ProcessValue(a, new_value) ==
    IF a[1] = "Latest"
    THEN IF a[2] = None THEN Latest(Some(new_value)) ELSE a
    ELSE List(Append(a[2], new_value))

\* Option::into_iter: the value if there is one.
OptionIntoIter(o) == IF o[1] = "Some" THEN <<o[2]>> ELSE <<>>

\* impl IntoIterator for ValueAccumulator: the items the iterator yields,
\* in order.
IntoIter(a) == IF a[1] = "Latest" THEN OptionIntoIter(a[2]) ELSE a[2]

\* ValueAccumulator::from(policy)
InitAcc ==
    /\ GcOff
    /\ \E policy \in AccumulationPolicies : acc = FromPolicy(policy)
    /\ values = <<>>
    /\ yielded = <<>>
    /\ DelIdle
    /\ TrailerIdle
    /\ EdIdle
    /\ MsgIdle

\* acc.process(new_value)
AccProcess ==
    /\ acc # Moved
    /\ Len(values) < MaxProcess
    /\ \E new_value \in TrailerValues :
        /\ acc' = ProcessValue(acc, new_value)
        /\ values' = Append(values, new_value)
    /\ UNCHANGED <<refdir, gcVars, yielded, delVars, trailerVars, edVars,
                   msgVars>>

\* acc.into_iter(), drained
AccIntoIter ==
    /\ acc # Moved
    /\ yielded' = IntoIter(acc)
    /\ acc' = Moved
    /\ UNCHANGED <<refdir, gcVars, values, delVars, trailerVars, edVars,
                   msgVars>>

NextAcc ==
    \/ AccProcess
    \/ AccIntoIter

SpecAcc == InitAcc /\ [][NextAcc]_vars

\* ------------------------------------------------------------- editor()
Programs == {"nano", "emacs"}

\* An environment variable is not there, holds bytes that are not valid
\* Unicode, or holds a string.
EnvValues ==
    {<<"NotPresent">>, <<"NotUnicode">>} \cup {<<"Set", p>> : p \in Programs}

\* std::env::var(name)
EnvVar(name) ==
    IF environ[name][1] = "Set" THEN <<"Ok", environ[name][2]>>
    ELSE <<"Err", environ[name][1]>>

\* Config::get_str(name); the configuration holds core.editor or nothing.
ConfigGetStr(name) ==
    IF name = "core.editor" /\ gitconf # None THEN <<"Ok", gitconf[2]>>
    ELSE <<"Err", "NotFound">>

\* Result::ok
ResultOk(res) == IF res[1] = "Ok" THEN Some(res[2]) ELSE None

\* Var::value
VarValue(var) ==
    CASE var[1] = "Environ" -> ResultOk(EnvVar(var[2]))
      [] var[1] = "GitConf" -> ResultOk(ConfigGetStr(var[2]))
      [] var[1] = "Default" -> Some(var[2])

\* prefs.into_iter().filter_map(|var| var.value(config)).next()
RECURSIVE FirstValue(_)
FirstValue(prefs) ==
    IF prefs = <<>> THEN None
    ELSE IF VarValue(Head(prefs)) # None THEN VarValue(Head(prefs))
    ELSE FirstValue(Tail(prefs))

\* command(name, prefs, config)
Command(name, prefs) ==
    LET first == FirstValue(prefs)
    IN  IF first = None THEN <<"Err", <<"ProgramError", name>>>>
        ELSE <<"Ok", <<"Command", first[2]>>>>

\* Variant of EditorPrefs: the environment before the configuration.
EditorPrefsEnvironFirst ==
    << <<"Environ", "GIT_EDITOR">>, <<"Environ", "VISUAL">>,
       <<"Environ", "EDITOR">>, <<"GitConf", "core.editor">>,
       <<"Default", "vi">> >>

\* editor: the preference order
EditorPrefs ==
    << <<"Environ", "GIT_EDITOR">>, <<"GitConf", "core.editor">>,
       <<"Environ", "VISUAL">>, <<"Environ", "EDITOR">>,
       <<"Default", "vi">> >>

\* Any environment and configuration; editor not called yet.
InitEd ==
    /\ GcOff
    /\ environ \in [EnvNames -> EnvValues]
    /\ gitconf \in {None} \cup {Some(p) : p \in Programs}
    /\ editor_result = <<"pending">>
    /\ DelIdle
    /\ AccIdle
    /\ TrailerIdle
    /\ MsgIdle

\* editor(config)
EditorCall ==
    /\ editor_result = <<"pending">>
    /\ editor_result' = Command("editor", EditorPrefs)
    /\ UNCHANGED <<refdir, gcVars, environ, gitconf, delVars, accVars,
                   trailerVars, msgVars>>

NextEd == EditorCall

SpecEd == InitEd /\ [][NextEd]_vars

\* ------------------------------------------------- Accumulator::process
\* The keys of the trailers, and those a map may have registered.
TrailerKeys == {"Dit-status", "Dit-type", "Signed-off-by"}

RegistrableKeys == {"Dit-status", "Dit-type"}

\* A trailer is its key and its value (trailer.into()).
Trailers == {<<key, value>> : key \in TrailerKeys, value \in TrailerValues}

\* Variant of MapProcess: entry(key).or_default() in place of get_mut(key).
MapProcessEntry(map, trailer) ==
    [k \in DOMAIN map \cup {trailer[1]} |->
        IF k = trailer[1]
        THEN ProcessValue(IF k \in DOMAIN map THEN map[k] ELSE Latest(None),
                          trailer[2])
        ELSE map[k]]

\* Accumulator::process for HashMap and for BTreeMap:
\* self.get_mut(key).map(|acc| acc.process(value))
MapProcess(map, trailer) ==
    IF trailer[1] \in DOMAIN map
    THEN [map EXCEPT ![trailer[1]] = ProcessValue(@, trailer[2])]
    ELSE map

\* SingleAccumulator::new(key, policy)
SingleAccumulatorNew(key, policy) == [key |-> key, acc |-> FromPolicy(policy)]

\* Accumulator::process for SingleAccumulator
SingleProcess(sa, trailer) ==
    IF trailer[1] = sa.key
    THEN [sa EXCEPT !.acc = ProcessValue(@, trailer[2])]
    ELSE sa

\* A map with accumulators registered for any keys, of any policy, and a
\* SingleAccumulator for any key.
InitTrailers ==
    /\ GcOff
    /\ \E K \in SUBSET RegistrableKeys :
        \E policy \in [K -> AccumulationPolicies] :
            accmap = [k \in K |-> FromPolicy(policy[k])]
    /\ \E key \in TrailerKeys, policy \in AccumulationPolicies :
        single = SingleAccumulatorNew(key, policy)
    /\ trailers = <<>>
    /\ DelIdle
    /\ AccIdle
    /\ EdIdle
    /\ MsgIdle

\* accmap.process(trailer)
AccumulatorProcessMap ==
    /\ Len(trailers) < MaxTrailers
    /\ \E trailer \in Trailers :
        /\ accmap' = MapProcess(accmap, trailer)
        /\ trailers' = Append(trailers, <<"map", trailer>>)
    /\ UNCHANGED <<refdir, gcVars, single, delVars, accVars, edVars, msgVars>>

\* single.process(trailer)
AccumulatorProcessSingle ==
    /\ Len(trailers) < MaxTrailers
    /\ \E trailer \in Trailers :
        /\ single' = SingleProcess(single, trailer)
        /\ trailers' = Append(trailers, <<"single", trailer>>)
    /\ UNCHANGED <<refdir, gcVars, accmap, delVars, accVars, edVars, msgVars>>

NextTrailers ==
    \/ AccumulatorProcessMap
    \/ AccumulatorProcessSingle

SpecTrailers == InitTrailers /\ [][NextTrailers]_vars

\* ------------------------------------------------------ IssueMessagesIter
\* get_issue_heads(id), the glob **/dit/<id>/head: the head references,
\* local and remote, of the issue named by the id.
IssueHeads(id) ==
    {r \in RefNames : r[2] = id /\ r[3] = "head" /\ refdir[r] # Absent}

\* find_issue(id).is_ok(): a head reference of the issue exists.
FindIssueOk(id) == IssueHeads(id) # {}

\* first_parent_revwalk(id): a revwalk from id that follows first parents
\* only.
FirstParentRevwalk(id) == RevwalkPush(NewRevwalk, id)

\* What a first parent revwalk may yield next: the pushed id, or the first
\* parent of an id it has yielded.
FirstParentFrontier(w) ==
    (w.pushed \cup ({first_parent[n] : n \in w.walked} \ {Absent})) \ w.walked

\* Variant of FuseIfInitial: only a local head makes an issue.
FuseIfInitialLocal(w, id) ==
    IF LocalHead(id) # Absent THEN NewRevwalk ELSE w

\* fuse_if_initial: Revwalk::reset if the id is that of an issue.
FuseIfInitial(w, id) == IF FindIssueOk(id) THEN NewRevwalk ELSE w

\* The first parent of each commit: one of its parents, if it has any.
FirstParents(dag) ==
    {f \in [Node -> Node \cup {Absent}] :
        \A n \in Node :
            IF dag[n] = {} THEN f[n] = Absent ELSE f[n] \in dag[n]}

MsgNames ==
    {LocalHeadName(i) : i \in Node} \cup {RemoteHeadName(i) : i \in Node}

\* Any commits may be initial messages, known locally or from a remote;
\* where a head points makes no difference to find_issue.
MsgRefdirs ==
    {d \in Refdirs(MsgNames) : \A r \in MsgNames : d[r] \in {Absent, r[2]}}

\* IssueMessagesIter::new(repo, commit), on any repository
InitMessages ==
    /\ parents \in Dags
    /\ first_parent \in FirstParents(parents)
    /\ refdir \in MsgRefdirs
    /\ start \in Node
    /\ inner = FirstParentRevwalk(start)
    /\ commits = <<>>
    /\ pc = "messages"
    /\ consider_remote_refs = FALSE
    /\ collect_heads = "Never"
    /\ issues = <<>>
    /\ retval = <<>>
    /\ messages = NewRevwalk
    /\ refs_to_assess = <<>>
    /\ refs = EmptyMap
    /\ current_refs = <<>>
    /\ ipc = "idle"
    /\ visited = {}
    /\ armed = <<>>
    /\ emitted = <<>>
    /\ failed = 0
    /\ DelIdle
    /\ AccIdle
    /\ TrailerIdle
    /\ EdIdle

\* IssueMessagesIter::next, the revwalk yields an id: fuse_if_initial(id),
\* then the commit is returned.
MessagesNext ==
    /\ pc = "messages"
    /\ \E id \in FirstParentFrontier(inner) :
        /\ inner' = FuseIfInitial(RevwalkYield(inner, id), id)
        /\ commits' = Append(commits, id)
    /\ UNCHANGED <<parents, refdir, confVars, localVars, pc, refs,
                   current_refs, ipc, visited, armed, emitted, failed,
                   delVars, accVars, trailerVars, edVars, first_parent,
                   start>>

\* IssueMessagesIter::next, the revwalk is exhausted (and resets itself):
\* None.
MessagesEnd ==
    /\ pc = "messages"
    /\ FirstParentFrontier(inner) = {}
    /\ inner' = NewRevwalk
    /\ pc' = "messages_end"
    /\ UNCHANGED <<parents, refdir, confVars, localVars, refs, current_refs,
                   ipc, visited, armed, emitted, failed, libVars>>

NextMessages ==
    \/ MessagesNext
    \/ MessagesEnd

SpecMessages == InitMessages /\ [][NextMessages]_vars

\* ================================================================ claims
\* What into_refs has reported so far.
Reported == Range(retval)

IsLocalHead(r) == r[1] = "local" /\ r[3] = "head"

IsLocalLeaf(r) == r[1] = "local" /\ r[3] = "leaf"

\* The local references that exist, and the commits reachable from the
\* targets of a set of references.
LocalRefs == {r \in RefNames : r[1] = "local" /\ refdir[r] # Absent}

History(R) == Ancestors({refdir[r] : r \in R})

RemoteHeadTargets(issue) == {refdir[r] : r \in RemoteRefs(issue, "head")}

RemoteLeafTargets(issue) == {refdir[r] : r \in RemoteRefs(issue, "leaf")}

\* What into_refs pushes to messages for the local references: the targets
\* of the local heads and the parents of the targets of the local leaves.
LeafSeeds ==
    {refdir[r] : r \in {x \in LocalRefs : IsLocalHead(x)}}
    \cup UNION {parents[refdir[r]] : r \in {x \in LocalRefs : IsLocalLeaf(x)}}

LeafNames == {LocalLeafName(i, k) : i \in IssueIds, k \in 1..MaxLeaves}

\* Every issue handed to into_refs has a local head: no error is due.
AllHeadsPresent == \A j \in Range(issues) : LocalHead(j) # Absent

C3_NeverCollectsHeads ==
    collect_heads = "Never" => \A r \in Reported : ~IsLocalHead(r)

\* The head pass of an issue has walked its (empty) history to the end with
\* a remote head of the issue on the very commit of the local head, and the
\* head is not reported.
C3_Witness ==
    /\ collect_heads = "Never"
    /\ pc = "head_pass"
    /\ ipc = "refill"
    /\ Frontier(inner) = {}
    /\ \E i \in IssueIds :
        /\ armed = <<LocalHeadName(i)>>
        /\ LocalHead(i) \in RemoteHeadTargets(i)
    /\ retval = <<>>

\* C4: under every configuration a local head is reported only if its
\* target is an ancestor of, or equal to, the target of a remote head of
\* the same issue; local leaves, a reply to the head included, and what is
\* pushed to messages never get it reported.
C4_HeadOnlyByRemoteHead ==
    \A i \in IssueIds :
        LocalHeadName(i) \in Reported =>
            /\ LocalHead(i) # Absent
            /\ LocalHead(i) \in Ancestors(RemoteHeadTargets(i))

\* A head is reported while a local leaf of its issue replies to it.
C4_Witness ==
    \E i \in IssueIds :
        /\ LocalHeadName(i) \in Reported
        /\ \E l \in LocalLeaves(i) : LocalHead(i) \in parents[refdir[l]]

\* C5 (as claimed): with collect_heads = BackedByRemoteHead, into_refs on
\* an issue whose local head is an ancestor of, or equal to, a remote head
\* of the issue returns a list that includes the local head.
C5_BackedHeadIsReturned ==
    \A i \in IssueIds :
        (/\ pc = "new"
         /\ collect_heads = "BackedByRemoteHead"
         /\ i \in Range(issues)
         /\ AllHeadsPresent
         /\ LocalHead(i) \in Ancestors(RemoteHeadTargets(i)))
        ~> (pc = "ok" /\ LocalHeadName(i) \in Reported)

\* C6 (as claimed): into_refs returns a list that includes every local leaf
\* whose target is an ancestor of, or equal to, the target of its issue's
\* local head, and, with collect_heads = Never, not the head.
C6_LeafUnderHeadIsReturned ==
    \A l \in LeafNames :
        (/\ pc = "new"
         /\ AllHeadsPresent
         /\ l[2] \in Range(issues)
         /\ refdir[l] # Absent
         /\ refdir[l] \in Ancestors({LocalHead(l[2])}))
        ~> (/\ pc = "ok"
            /\ l \in Reported
            /\ collect_heads = "Never" => LocalHeadName(l[2]) \notin Reported)

\* C7 (as claimed): when the wrapped revwalk is exhausted and nothing is
\* staged, next returns None.
C7_NextEndsWhenDepleted ==
    [][(ipc = "refill" /\ Frontier(inner) = {}) => ipc' = "end"]_vars

\* C8: in one pass, the references watched under one target id are each
\* returned exactly once when the revwalk yields that id: once the staged
\* references are handed out, every reference filed under a visited id has
\* been returned as often as it was registered, and no reference is ever
\* returned more often than that.
C8_ExactlyOnce ==
    /\ \A r \in Range(armed) \cup Range(emitted) :
        Count(emitted, r) <= Count(armed, r)
    /\ current_refs = <<>> =>
        \A r \in Range(armed) :
            refdir[r] \in visited => Count(emitted, r) = Count(armed, r)

\* Different references on one commit, registered once each, as many as
\* may be registered, have each been returned once in a pass that visited
\* another commit as well.
C8_Witness ==
    /\ Len(armed) = MaxWatch
    /\ NoDuplicates(armed)
    /\ \A r \in Range(armed) : refdir[r] = refdir[armed[1]]
    /\ \A r \in Range(armed) : Count(emitted, r) = 1
    /\ Cardinality(visited) >= 2

C10_LeafUnderRemoteLeafIsReturned ==
    \A l \in LeafNames :
        (/\ pc = "new"
         /\ consider_remote_refs
         /\ AllHeadsPresent
         /\ l[2] \in Range(issues)
         /\ refdir[l] # Absent
         /\ refdir[l] \in Ancestors(RemoteLeafTargets(l[2])))
        ~> (pc = "ok" /\ l \in Reported)

\* C11 (as claimed): into_refs is fail-fast: when the local head of any
\* issue of the batch is missing, into_refs returns an error (an Err holds
\* no list, and into_refs writes no reference).
C11_MissingHeadIsAnError ==
    (pc = "new" /\ \E j \in Range(issues) : LocalHead(j) = Absent)
    ~> (pc = "err")

\* C12 (as claimed): in the default configuration, into_refs on issues of
\* which no local leaf is subsumed returns the empty list, and leaves the
\* reference directory as it was for the next run.
C12_NothingSubsumedNothingReturned ==
    (/\ pc = "new"
     /\ ~consider_remote_refs
     /\ collect_heads = "Never"
     /\ AllHeadsPresent
     /\ \A l \in LocalRefs :
            IsLocalLeaf(l) => refdir[l] \notin Ancestors(LeafSeeds))
    ~> (pc = "ok" /\ retval = <<>>)

\* The references the collector has tried to delete so far.
Tried == {results[i][2] : i \in 1..Len(results)}

C14_DeletionErrorIsLocal ==
    /\ \A i \in 1..Len(results) :
        LET r == results[i][2]
            gone == \/ dir0[r] = Absent
                    \/ \E j \in 1..(i - 1) : results[j][2] = r
        IN  /\ results[i][1] = IF gone THEN "Err" ELSE "Ok"
            /\ refdir[r] = Absent
    /\ \A r \in RefNames \ Tried : pc # "vec" => refdir[r] = dir0[r]
    /\ pc = "drained" => Len(results) = Len(retval)

\* A reference was deleted, the next advance failed on a reference that
\* was gone, and the advance after that deleted another reference.
C14_Witness ==
    /\ Len(results) = 3
    /\ results[1][1] = "Ok"
    /\ results[2][1] = "Err"
    /\ results[3][1] = "Ok"
    /\ refdir[results[1][2]] = Absent
    /\ refdir[results[3][2]] = Absent

\* C15: a ValueAccumulator with the Latest policy yields exactly one value,
\* the first one processed, after any sequence of process calls, and no
\* value if none was processed.
C15_LatestYieldsFirst ==
    [][(acc[1] = "Latest" /\ acc' = Moved) =>
         yielded' = IF values = <<>> THEN <<>> ELSE <<values[1]>>]_vars

\* A Latest accumulator that processed as many values as may be, the
\* first two different, yielded the first one and nothing else.
C15_Witness ==
    /\ acc = Moved
    /\ Len(values) = MaxProcess
    /\ values[1] # values[2]
    /\ yielded = <<values[1]>>

\* C16: a ValueAccumulator with the List policy yields every processed
\* value exactly once, in the order in which the values were processed.
C16_ListYieldsAllInOrder ==
    [][(acc[1] = "List" /\ acc' = Moved) => yielded' = values]_vars

\* A List accumulator yielded several values, one of them processed twice,
\* as they came.
C16_Witness ==
    /\ acc = Moved
    /\ Len(values) >= 3
    /\ values[1] # values[2]
    /\ values[3] = values[1]
    /\ yielded = values

\* An environment variable has a value that can be used.
HasValue(name) == environ[name][1] = "Set"

\* C17: editor() returns the command named by the first source that has a
\* value, in the order GIT_EDITOR (environment), core.editor (git
\* configuration), VISUAL, EDITOR (environment), "vi"; a source is used
\* only if none before it has a value, and the result is never an error.
C17_EditorPreference ==
    editor_result # <<"pending">> =>
        /\ editor_result[1] = "Ok"
        /\ editor_result[2][2] =
            IF HasValue("GIT_EDITOR") THEN environ["GIT_EDITOR"][2]
            ELSE IF gitconf # None THEN gitconf[2]
            ELSE IF HasValue("VISUAL") THEN environ["VISUAL"][2]
            ELSE IF HasValue("EDITOR") THEN environ["EDITOR"][2]
            ELSE "vi"

\* Without GIT_EDITOR, editor() returned the program of core.editor, VISUAL
\* and EDITOR naming another one.
C17_Witness ==
    /\ editor_result[1] = "Ok"
    /\ environ["GIT_EDITOR"] = <<"NotPresent">>
    /\ gitconf # None
    /\ HasValue("VISUAL")
    /\ HasValue("EDITOR")
    /\ environ["VISUAL"][2] # gitconf[2]
    /\ environ["EDITOR"][2] # gitconf[2]
    /\ editor_result[2] = <<"Command", gitconf[2]>>

\* C18: RefsReferringTo emits a reference only if it was registered with
\* watch_ref and only after the wrapped revwalk has yielded its target id;
\* a watched reference whose target is never yielded is never emitted, and
\* is no error either.
C18_EmittedOnlyOnceVisited ==
    \A i \in 1..Len(emitted) :
        /\ emitted[i] \in Range(armed)
        /\ refdir[emitted[i]] \in visited

\* The revwalk is exhausted without any error: a watched reference was
\* emitted, a watched reference whose target was not visited was not, and
\* neither was a reference that was not watched, on a visited commit.
C18_Witness ==
    /\ pc = "iter"
    /\ ipc = "refill"
    /\ Frontier(inner) = {}
    /\ failed = 0
    /\ emitted # <<>>
    /\ \E r \in Range(armed) :
        refdir[r] \notin visited /\ r \notin Range(emitted)
    /\ \E u \in IterNames \ Range(armed) :
        refdir[u] \in visited /\ u \notin Range(emitted)

\* C19 (as claimed): once next has returned an error of the wrapped
\* revwalk, later calls of next emit no reference.
C19_NothingEmittedAfterError ==
    [][failed > 0 => emitted' = emitted]_vars

\* C20: Accumulator::process on a map adds and removes no key, leaves the
\* map as it is for a trailer whose key is not registered, and changes no
\* accumulator but that of the trailer's key; SingleAccumulator::process
\* keeps its key, and leaves its accumulator as it is for a trailer with
\* another key.
C20_ProcessKeepsOtherKeys ==
    [][trailers' # trailers =>
        LET who == Last(trailers')[1]
            key == Last(trailers')[2][1]
        IN  /\ who = "map" =>
                /\ DOMAIN accmap' = DOMAIN accmap
                /\ key \notin DOMAIN accmap => accmap' = accmap
                /\ \A k \in DOMAIN accmap \ {key} : accmap'[k] = accmap[k]
            /\ who = "single" =>
                /\ single'.key = single.key
                /\ key # single.key => single' = single]_vars

\* A map with two keys has processed a trailer with a key that is not
\* registered and one with a registered key, and the SingleAccumulator a
\* trailer with another key than its own: one accumulator of the map has
\* a value, the other and that of the SingleAccumulator have none.
C20_Witness ==
    /\ DOMAIN accmap = RegistrableKeys
    /\ \E i, j, n \in 1..Len(trailers) :
        /\ trailers[i][1] = "map"
        /\ trailers[i][2][1] \notin DOMAIN accmap
        /\ trailers[j][1] = "map"
        /\ trailers[j][2][1] \in DOMAIN accmap
        /\ IntoIter(accmap[trailers[j][2][1]]) = <<trailers[j][2][2]>>
        /\ \A k \in DOMAIN accmap \ {trailers[j][2][1]} :
            IntoIter(accmap[k]) = <<>>
        /\ trailers[n][1] = "single"
        /\ trailers[n][2][1] # single.key
        /\ IntoIter(single.acc) = <<>>

\* A commit is the initial message of an issue: a head reference, local or
\* remote, exists for its id.
IsInitialMessage(id) ==
    \/ refdir[LocalHeadName(id)] # Absent
    \/ refdir[RemoteHeadName(id)] # Absent

\* C21: an IssueMessagesIter started at a commit yields that commit and
\* then its first parent ancestors in order, and stops right after the
\* first initial message on that chain: an initial message is the last item
\* yielded, no ancestor of it is yielded, and the sequence ends only after
\* an initial message or a commit without parents.
C21_MessagesUpToInitial ==
    /\ commits # <<>> => commits[1] = start
    /\ \A i \in 1..(Len(commits) - 1) :
        /\ commits[i + 1] = first_parent[commits[i]]
        /\ ~IsInitialMessage(commits[i])
    /\ \A i, j \in 1..Len(commits) :
        IsInitialMessage(commits[i]) =>
            commits[j] \notin Ancestors(parents[commits[i]])
    /\ pc = "messages_end" =>
        /\ commits # <<>>
        /\ \/ IsInitialMessage(Last(commits))
           \/ first_parent[Last(commits)] = Absent

\* The iterator has ended after a reply and the initial message it replies
\* to, an initial message that has a parent of its own.
C21_Witness ==
    /\ pc = "messages_end"
    /\ Len(commits) = 2
    /\ ~IsInitialMessage(commits[1])
    /\ IsInitialMessage(commits[2])
    /\ first_parent[commits[2]] # Absent

\* The references that exist, local and remote.
AllRefs == {r \in RefNames : refdir[r] # Absent}

SoloReported(issue) ==
    (IF /\ collect_heads = "BackedByRemoteHead"
        /\ LocalHead(issue) \in Ancestors(RemoteHeadTargets(issue))
     THEN {LocalHeadName(issue)} ELSE {})
    \cup {l \in LocalLeaves(issue) :
            refdir[l] \in Ancestors({LocalHead(issue)} \cup
                UNION {parents[refdir[x]] : x \in LocalLeaves(issue)})}

=============================================================================
